---- MODULE Spec2Model ----
(***************************************************************************)
(* Model of src/app.py, the Streamlit inventory tracker.                   *)
(*                                                                         *)
(* Text is modelled as a sequence of one-character strings, so that the    *)
(* conversions of the program (strip, lower, upper, str, the regular       *)
(* expression of _new_id, the %04d format, the CSV and spreadsheet round   *)
(* trips) are computed as the code computes them.  Two cell values are     *)
(* not text: the float NaN that pandas.read_csv produces for an empty      *)
(* cell, and Python's None that the data editor produces for a cleared     *)
(* cell.  They are the one-element sequences NaN and None below, which no  *)
(* text equals because their element is not a single character.            *)
(***************************************************************************)
EXTENDS Integers, Sequences, FiniteSets, TLC

(***************************************************************************)
(* Bounds of the model.                                                    *)
(***************************************************************************)
MaxRecords == 2
MaxIdNum == 2
MaxIdCol == 2
MaxApiFailures == 1

(***************************************************************************)
(* Cell values and the Python string functions the program uses.           *)
(***************************************************************************)
NaN == <<"NaN">>
None == <<"None">>

Uppers == <<"A","B","C","D","E","F","G","H","I","J","K","L","M",
            "N","O","P","Q","R","S","T","U","V","W","X","Y","Z">>
Lowers == <<"a","b","c","d","e","f","g","h","i","j","k","l","m",
            "n","o","p","q","r","s","t","u","v","w","x","y","z">>
Digits == <<"0","1","2","3","4","5","6","7","8","9">>

Letters == { Uppers[i] : i \in 1..26 } \cup { Lowers[i] : i \in 1..26 }

\* str.lower and str.upper, letter by letter; other characters are kept.
LowerOf == [c \in Letters |->
              IF \E i \in 1..26 : Uppers[i] = c
              THEN Lowers[CHOOSE i \in 1..26 : Uppers[i] = c] ELSE c]

UpperOf == [c \in Letters |->
              IF \E i \in 1..26 : Lowers[i] = c
              THEN Uppers[CHOOSE i \in 1..26 : Lowers[i] = c] ELSE c]

LowerChar(c) == IF c \in Letters THEN LowerOf[c] ELSE c

UpperChar(c) == IF c \in Letters THEN UpperOf[c] ELSE c

lower(s) == [i \in 1..Len(s) |-> LowerChar(s[i])]

upper(s) == [i \in 1..Len(s) |-> UpperChar(s[i])]

RECURSIVE lstrip(_)
lstrip(s) == IF s # <<>> /\ Head(s) = " " THEN lstrip(Tail(s)) ELSE s

RECURSIVE rstrip(_)
rstrip(s) ==
    IF s # <<>> /\ s[Len(s)] = " " THEN rstrip(SubSeq(s, 1, Len(s) - 1)) ELSE s

strip(s) == rstrip(lstrip(s))

\* str(x) of a cell value: a float NaN prints as "nan", None as "None".
str(v) ==
    IF v = NaN THEN <<"n","a","n">>
    ELSE IF v = None THEN <<"N","o","n","e">>
    ELSE v

DigitSet == { Digits[i] : i \in 1..10 }

IsDigit(c) == c \in DigitSet

DigitVal(c) == (CHOOSE i \in 1..10 : Digits[i] = c) - 1

\* int() of a run of decimal digits.
RECURSIVE ParseDigits(_)
ParseDigits(s) ==
    IF s = <<>> THEN 0
    ELSE 10 * ParseDigits(SubSeq(s, 1, Len(s) - 1)) + DigitVal(s[Len(s)])

\* str(n) of a non-negative integer.
RECURSIVE IntStr(_)
IntStr(n) ==
    IF n < 10 THEN <<Digits[n + 1]>>
    ELSE Append(IntStr(n \div 10), Digits[(n % 10) + 1])

RECURSIVE ZeroPad(_, _)
ZeroPad(s, w) == IF Len(s) >= w THEN s ELSE ZeroPad(<<"0">> \o s, w)

\* f"I-{nxt:04d}"
FormatId(nxt) == <<"I", "-">> \o ZeroPad(IntStr(nxt), 4)

(***************************************************************************)
(* _new_id: Series.str.extract(r"I-(\d+)") is a regular expression SEARCH: *)
(* the first position where "I-" is followed by a digit, and the longest   *)
(* run of digits from there.  An id without such a position yields NaN     *)
(* and is dropped.                                                         *)
(***************************************************************************)
MatchAt(s, p) ==
    /\ p + 2 <= Len(s)
    /\ s[p] = "I"
    /\ s[p + 1] = "-"
    /\ IsDigit(s[p + 2])

HasMatch(s) == \E p \in 1..Len(s) : MatchAt(s, p)

FirstMatch(s) == CHOOSE p \in 1..Len(s) : MatchAt(s, p) /\ \A r \in 1..(p - 1) : ~MatchAt(s, r)

RECURSIVE DigitRunEnd(_, _)
DigitRunEnd(s, i) ==
    IF i + 1 <= Len(s) /\ IsDigit(s[i + 1]) THEN DigitRunEnd(s, i + 1) ELSE i

ExtractNum(s) ==
    LET p == FirstMatch(s)
    IN  ParseDigits(SubSeq(s, p + 2, DigitRunEnd(s, p + 2)))

SetMax(S) == CHOOSE m \in S : \A x \in S : x <= m

\* The int list nums of line 131-134, as the set of its values.
IdNums(idcol) == { ExtractNum(idcol[i]) : i \in { j \in 1..Len(idcol) : HasMatch(idcol[j]) } }

\* Two faulty ways to number a new row, kept for comparison: the number of
\* rows plus one (the fallback of line 138 taken always), and the number of
\* the last id plus one.
NewIdByCount(idcol) == FormatId(Len(idcol) + 1)

NewIdAfterLast(idcol) ==
    IF idcol = <<>> \/ ~HasMatch(idcol[Len(idcol)]) THEN FormatId(1)
    ELSE FormatId(ExtractNum(idcol[Len(idcol)]) + 1)

NewIdOfColumn(idcol) ==
    IF idcol = <<>> THEN FormatId(1)
    ELSE LET nums == IdNums(idcol)
             nxt == IF nums # {} THEN SetMax(nums) + 1 ELSE 1
         IN  FormatId(nxt)

_new_id(df) == NewIdOfColumn([i \in 1..Len(df) |-> df[i].ID])

(***************************************************************************)
(* Records.  A row of the DataFrame is a record over APP_COLUMNS (line     *)
(* 29-37); Cantidad is an int, every other cell is text, NaN or None.      *)
(***************************************************************************)
Row(id, idsim, img, desc, uni, cant, ubi) ==
    [ID |-> id, IDSimilar |-> idsim, Imagen |-> img, Descripcion |-> desc,
     Unidad |-> uni, Cantidad |-> cant, Ubicacion |-> ubi]

\* The header row written by ws.append_row(APP_COLUMNS).
APP_COLUMNS ==
    << <<"ID">>, <<"ID Similar">>, <<"Imagen">>, <<"Descripcion">>,
       <<"Unidad">>, <<"Cantidad">>, <<"Ubicacion Fisica">> >>

\* pandas.read_csv's default na_values: cells read back as NaN.
NA_VALUES ==
    { <<>>,
      <<"n","a","n">>, <<"N","a","N">>, <<"N","A">>, <<"N","/","A">>,
      <<"n","/","a">>, <<"n","u","l","l">>, <<"N","U","L","L">>,
      <<"N","o","n","e">>, <<"<","N","A",">">>, <<"#","N","/","A">>,
      <<"#","N","A">>, <<"-","n","a","n">>, <<"-","N","a","N">>,
      <<"#","N","/","A"," ","N","/","A">>,
      <<"1",".","#","I","N","D">>, <<"-","1",".","#","I","N","D">>,
      <<"1",".","#","Q","N","A","N">>, <<"-","1",".","#","Q","N","A","N">> }

IsNull(v) == v = NaN \/ v = None

\* The text a cell is written as: a missing value is written empty.
CellText(v) == IF IsNull(v) THEN <<>> ELSE v

\* pd.to_numeric(errors="coerce").fillna(0).astype(int) on a written int.
ToCantidad(cell) ==
    IF cell # <<>> /\ \A i \in 1..Len(cell) : IsDigit(cell[i])
    THEN ParseDigits(cell) ELSE 0

\* df.to_csv("inventario.csv", index=False): the data rows of the file.
_save_local(df) ==
    [i \in 1..Len(df) |->
        Row(CellText(df[i].ID), CellText(df[i].IDSimilar), CellText(df[i].Imagen),
            CellText(df[i].Descripcion), CellText(df[i].Unidad),
            IntStr(df[i].Cantidad), CellText(df[i].Ubicacion))]

ReadCsvCell(cell) == IF cell \in NA_VALUES THEN NaN ELSE cell

\* pd.read_csv of the file's rows, then the coercions of line 100-102.
ReadCsvRows(rows) ==
    [i \in 1..Len(rows) |->
        Row(str(ReadCsvCell(rows[i].ID)), ReadCsvCell(rows[i].IDSimilar),
            ReadCsvCell(rows[i].Imagen), ReadCsvCell(rows[i].Descripcion),
            ReadCsvCell(rows[i].Unidad), ToCantidad(rows[i].Cantidad),
            ReadCsvCell(rows[i].Ubicacion))]

\* _load_local without its cache: a missing file is an empty DataFrame.
ReadLocal(file) == IF file.exists THEN ReadCsvRows(file.rows) ELSE <<>>

\* df.fillna("").astype(str).values.tolist(), cells in APP_COLUMNS order.
SheetValues(df) ==
    [i \in 1..Len(df) |->
        << CellText(df[i].ID), CellText(df[i].IDSimilar), CellText(df[i].Imagen),
           CellText(df[i].Descripcion), CellText(df[i].Unidad),
           IntStr(df[i].Cantidad), CellText(df[i].Ubicacion) >>]

\* _read_from_gsheets when the API answers: ws.get_all_records() takes the
\* first row as the keys; a blank cell is "" (never NaN).  A first row that
\* lacks an APP_COLUMNS key makes df[col] = [] raise on a non-empty frame,
\* which the except turns into the empty DataFrame.
ReadSheetRows(rows) ==
    IF Len(rows) <= 1 THEN <<>>
    ELSE IF rows[1] # APP_COLUMNS THEN <<>>
    ELSE [i \in 1..(Len(rows) - 1) |->
            LET r == rows[i + 1]
            IN  Row(str(r[1]), r[2], r[3], r[4], r[5], ToCantidad(r[6]), r[7])]

(***************************************************************************)
(* Normalization helpers, line 140-163.                                    *)
(***************************************************************************)
_normalize_idsim(val, norm_case, strip_spaces) ==
    IF val = None THEN <<>>
    ELSE LET s0 == str(val)
             s1 == IF strip_spaces THEN strip(s0) ELSE s0
         IN  IF norm_case = "Mayusculas" THEN upper(s1)
             ELSE IF norm_case = "Minusculas" THEN lower(s1)
             ELSE s1

_norm_text(s) == IF s = None THEN <<>> ELSE lower(strip(str(s)))

SameDescUbic(a, b) ==
    /\ _norm_text(a.Descripcion) = _norm_text(b.Descripcion)
    /\ _norm_text(a.Ubicacion) = _norm_text(b.Ubicacion)

_has_dup_desc_ubic(df) ==
    /\ df # <<>>
    /\ \E i, j \in 1..Len(df) : i # j /\ SameDescUbic(df[i], df[j])

(***************************************************************************)
(* Filters, line 231-239.                                                  *)
(***************************************************************************)
Contains(hay, needle) ==
    \E p \in 0..(Len(hay) - Len(needle)) :
        SubSeq(hay, p + 1, p + Len(needle)) = needle

RECURSIVE SelectRows(_, _)
SelectRows(df, keep) ==
    IF df = <<>> THEN <<>>
    ELSE IF Head(df).ID \in keep
         THEN <<Head(df)>> \o SelectRows(Tail(df), keep)
         ELSE SelectRows(Tail(df), keep)

IdSet(df) == { df[i].ID : i \in 1..Len(df) }

MatchesQuery(r, q) ==
    \E c \in {r.Descripcion, r.Ubicacion, r.ID, r.IDSimilar} :
        Contains(lower(str(c)), lower(q))

\* The ids of view_df for text filter q and location selection ub_sel.
ViewIds(df, q, ub_sel) ==
    { df[i].ID : i \in { j \in 1..Len(df) :
        /\ q = <<>> \/ MatchesQuery(df[j], q)
        /\ ub_sel = {} \/ df[j].Ubicacion \in ub_sel } }

\* The options of the location multiselect, line 228.
ubicaciones(df) ==
    { df[i].Ubicacion : i \in { j \in 1..Len(df) :
        ~IsNull(df[j].Ubicacion) /\ df[j].Ubicacion # <<>> } }

(***************************************************************************)
(* Inputs of the model: what a user can type into the widgets.             *)
(***************************************************************************)
DescInputs == { <<>>, <<"a">>, <<" ","a">> }
UbicInputs == { <<"x">>, <<"y">> }
IdSimInputs == { <<"s">> }
ImagenInputs == { <<>> }
UnidadInputs == { <<"u"," ">> }
CantInputs == { 1 }
\* The sidebar settings (norm_case, strip_spaces) a user can choose.
Settings ==
    { [norm_case |-> "Sin cambio", strip_spaces |-> TRUE],
      [norm_case |-> "Mayusculas", strip_spaces |-> TRUE],
      [norm_case |-> "Minusculas", strip_spaces |-> FALSE] }
\* What a user can type into a cell of the data editor, by column.
CellInputs == [Descripcion |-> { <<" ","A">> }]
\* The text and location filters a user can set: none, a text, a location.
FilterInputs ==
    { [q |-> <<>>, ub_sel |-> {}], [q |-> <<"a">>, ub_sel |-> {}],
      [q |-> <<>>, ub_sel |-> {<<"y">>}] }
WriteOutcomes == { "ok", "fail_clear", "fail_header", "fail_rows" }


(***************************************************************************)
(* State.                                                                  *)
(*   sheet      the rows of the remote worksheet                           *)
(*   file       inventario.csv: whether it exists, and its data rows       *)
(*   remote     whether a connection attempt succeeds now: the secrets are *)
(*              valid and the spreadsheet service opens the sheet          *)
(*   apiFailures  how many calls of the spreadsheet API have failed        *)
(*   connCache  st.cache_data's entry for _connect_gsheets                 *)
(*   localCache st.cache_data's entry for _load_local                      *)
(*   ws         the module-level ws of the latest script run               *)
(*   df         the module-level df at the end of the latest script run    *)
(*   loaded     df as loaded (line 204-206) by the run that handled the    *)
(*              latest user operation                                      *)
(*   last       the latest user operation: op, what was asked (cand, the   *)
(*              candidate of an add; ed_ids, the ids of the edited view;   *)
(*              protected, a filter was active and deleting while          *)
(*              filtered was off; pristine, no cell of the view was        *)
(*              changed and no row added), result, the DataFrame an        *)
(*              accepted add saved, and written, whether save_data was     *)
(*              called and the write went through ("no", "ok", "failed")   *)
(*   idcol, newid   the argument and the result of _new_id (SpecNewId)     *)
(*   wpc, wdf   two sessions inside _write_to_gsheets (SpecWriters)        *)
(***************************************************************************)
VARIABLES sheet, file, remote, apiFailures, connCache, localCache, ws, df,
          loaded, last, idcol, newid, wpc, wdf

vars == <<sheet, file, remote, apiFailures, connCache, localCache, ws, df,
          loaded, last, idcol, newid, wpc, wdf>>

NoCache == [hit |-> FALSE, df |-> <<>>]

NoRow == Row(<<>>, <<>>, <<>>, <<>>, <<>>, 0, <<>>)

\* The description of the latest operation.
Op(op, result, cand, protected, ed_ids, pristine) ==
    [op |-> op, result |-> result, written |-> "no",
     cand |-> [Descripcion |-> cand.Descripcion, Ubicacion |-> cand.Ubicacion],
     protected |-> protected, ed_ids |-> ed_ids, pristine |-> pristine]

NoOp(op) == Op(op, <<>>, NoRow, FALSE, {}, TRUE)

(***************************************************************************)
(* Storage adapter, line 39-123.                                           *)
(***************************************************************************)
\* _connect_gsheets under st.cache_data: the cached value if there is one,
\* else the worksheet when the secrets are valid and the service answers
\* (up), else None.
_connect_gsheets(cache, up) ==
    IF cache # "miss" THEN cache ELSE IF up THEN "ws" ELSE "None"

\* _read_from_gsheets: an API error is turned into the empty DataFrame.
_read_from_gsheets(rows, readOk) == IF readOk THEN ReadSheetRows(rows) ELSE <<>>

\* _load_local under st.cache_data.
_load_local(cache, f) == IF cache.hit THEN cache.df ELSE ReadLocal(f)

load_data(w, rows, readOk, cache, f) ==
    IF w = "ws" THEN _read_from_gsheets(rows, readOk) ELSE _load_local(cache, f)

\* _write_to_gsheets: clear, append the header, append the rows; an API
\* error at any of the three calls is caught and leaves what was done.
_write_to_gsheets(rows, d, wres) ==
    IF wres = "fail_clear" THEN rows
    ELSE IF wres = "fail_header" THEN <<>>
    ELSE IF wres = "fail_rows" THEN <<APP_COLUMNS>>
    ELSE <<APP_COLUMNS>> \o SheetValues(d)

\* save_data: the remote worksheet or the local file, by ws.
save_data(w, rows, f, d, wres) ==
    IF w = "ws"
    THEN [sheet |-> _write_to_gsheets(rows, d, wres), file |-> f]
    ELSE [sheet |-> rows, file |-> [exists |-> TRUE, rows |-> _save_local(d)]]

\* The start of a script run: line 111 and line 204-206.
Begin(cache, lcache, rows, f, up, readOk) ==
    LET w == _connect_gsheets(cache, up)
        d == load_data(w, rows, readOk, lcache, f)
    IN  [ws |-> w, df |-> d,
         localCache |-> IF w = "ws" THEN lcache ELSE [hit |-> TRUE, df |-> d]]

\* Inputs that cannot matter are fixed, so that each run is counted once.
RelevantInputs(cache, readOk) ==
    /\ _connect_gsheets(cache, remote) # "ws" => readOk
    /\ readOk \/ apiFailures < MaxApiFailures

\* The number of failed API calls among the outcomes of a run.
Failed(readOk, wres, readOk2) ==
    (IF readOk THEN 0 ELSE 1) + (IF wres = "ok" THEN 0 ELSE 1)
    + (IF readOk2 THEN 0 ELSE 1)

CountFailures(readOk, wres, readOk2) ==
    /\ apiFailures + Failed(readOk, wres, readOk2) <= MaxApiFailures
    /\ apiFailures' = apiFailures + Failed(readOk, wres, readOk2)

RelevantWrite(w, d, wres) ==
    /\ w # "ws" => wres = "ok"
    /\ d = <<>> => wres # "fail_rows"

\* A session that has not run the script yet, on an empty storage.
InitSession ==
    /\ sheet = <<>>
    /\ file = [exists |-> FALSE, rows |-> <<>>]
    /\ remote \in BOOLEAN
    /\ apiFailures = 0
    /\ connCache = "miss"
    /\ localCache = NoCache
    /\ ws = "unset"
    /\ df = <<>>
    /\ loaded = <<>>
    /\ last = NoOp("init")

Init ==
    /\ InitSession
    /\ idcol = <<>>
    /\ newid = None
    /\ wpc = <<"idle", "idle">>
    /\ wdf = << <<>>, <<>> >>

(***************************************************************************)
(* A script run that only displays: optionally after the "Forzar recarga"  *)
(* button, which clears st.cache_data (line 187-188).                      *)
(***************************************************************************)
RunView(force, readOk) ==
    LET cache == IF force THEN "miss" ELSE connCache
        lcache == IF force THEN NoCache ELSE localCache
        b == Begin(cache, lcache, sheet, file, remote, readOk)
    IN  /\ RelevantInputs(cache, readOk)
        /\ CountFailures(readOk, "ok", TRUE)
        /\ ws' = b.ws
        /\ connCache' = b.ws
        /\ localCache' = b.localCache
        /\ df' = b.df
        /\ loaded' = b.df
        /\ last' = NoOp("view")
        /\ UNCHANGED <<sheet, file, remote, idcol, newid, wpc, wdf>>

(***************************************************************************)
(* The add-item form, line 264-284.  A successful add saves, clears        *)
(* st.cache_data and reruns the script, which connects and loads again.    *)
(***************************************************************************)
\* The duplicate probe of line 266-268.
AddIsDup(d, cand) == _has_dup_desc_ubic(Append(d, cand))

\* new_row of line 271-279.
NewRow(d, cand, norm_case, strip_spaces) ==
    Row(_new_id(d), _normalize_idsim(cand.IDSimilar, norm_case, strip_spaces),
        strip(cand.Imagen), strip(cand.Descripcion), strip(cand.Unidad),
        cand.Cantidad, strip(cand.Ubicacion))

Candidates ==
    { Row(<<"t","m","p">>, s, i, d, u, c, b) :
        s \in IdSimInputs, i \in ImagenInputs, d \in DescInputs,
        u \in UnidadInputs, c \in CantInputs, b \in UbicInputs }

AddRejected(b, cand, readOk) ==
    /\ ws' = b.ws
    /\ connCache' = b.ws
    /\ localCache' = b.localCache
    /\ df' = b.df
    /\ last' = Op("add_dup", <<>>, cand, FALSE, {}, TRUE)
    /\ CountFailures(readOk, "ok", TRUE)
    /\ UNCHANGED <<sheet, file>>

AddAccepted(b, cand, norm_case, strip_spaces, readOk) ==
    \E d1 \in { Append(b.df, NewRow(b.df, cand, norm_case, strip_spaces)) } :
        /\ Len(b.df) < MaxRecords
        /\ ExtractNum(d1[Len(d1)].ID) <= MaxIdNum
        /\ \E wres \in WriteOutcomes :
            /\ RelevantWrite(b.ws, d1, wres)
            /\ wres = "ok" \/ apiFailures + Failed(readOk, "ok", TRUE) < MaxApiFailures
            /\ \E st \in { save_data(b.ws, sheet, file, d1, wres) } :
                /\ sheet' = st.sheet
                /\ file' = st.file
                \* st.cache_data.clear() and st.experimental_rerun()
                /\ \E readOk2 \in BOOLEAN :
                    /\ RelevantInputs("miss", readOk2)
                    /\ CountFailures(readOk, wres, readOk2)
                    /\ \E r \in { Begin("miss", NoCache, st.sheet, st.file,
                                        remote, readOk2) } :
                        /\ ws' = r.ws
                        /\ connCache' = r.ws
                        /\ localCache' = r.localCache
                        /\ df' = r.df
            /\ last' = [Op("add_ok", d1, cand, FALSE, {}, TRUE)
                          EXCEPT !.written = IF wres = "ok" THEN "ok" ELSE "failed"]

RunAdd(cands) ==
    /\ \E readOk \in BOOLEAN :
        /\ RelevantInputs(connCache, readOk)
        /\ \E b \in { Begin(connCache, localCache, sheet, file, remote, readOk) } :
            /\ loaded' = b.df
            /\ \E cand \in cands :
                IF AddIsDup(b.df, cand)
                THEN AddRejected(b, cand, readOk)
                ELSE \E cfg \in Settings :
                        AddAccepted(b, cand, cfg.norm_case, cfg.strip_spaces, readOk)
    /\ UNCHANGED <<remote, idcol, newid, wpc, wdf>>

(***************************************************************************)
(* The data editor and the merge of the edited view, line 300-340.         *)
(***************************************************************************)
Filtered(flt) == flt.q # <<>> \/ flt.ub_sel # {}

view_df(d, flt) == SelectRows(d, ViewIds(d, flt.q, flt.ub_sel))

\* A row added in the editor: the ID column is disabled, so it has no ID.
AddedRow == Row(None, None, None, None, None, 0, None)

\* What the data editor can return for a view: rows deleted, one cell
\* changed, or a row added.  The merge runs when the result differs from
\* the view (line 310).
EditedViews(view) ==
    { SelectRows(view, keep) : keep \in (SUBSET IdSet(view)) \ {IdSet(view)} }
    \cup { [view EXCEPT ![i].Descripcion = v] :
             i \in 1..Len(view), v \in CellInputs.Descripcion }
    \cup { Append(view, AddedRow) }

\* A faulty can_delete, kept for comparison: the filter protection is ignored.
CanDeleteAlways(q, ub_sel, allow_delete_filtered) == TRUE

\* line 321
can_delete(q, ub_sel, allow_delete_filtered) ==
    (q = <<>> /\ ub_sel = {}) \/ allow_delete_filtered

EdRow(ed, id) == ed[CHOOSE i \in 1..Len(ed) : ed[i].ID = id]

\* line 311-318: the rows of the edited view overwrite the rows of the same
\* ID, their ID Similar normalized.
ApplyEdits(d, ed, norm_case, strip_spaces) ==
    [i \in 1..Len(d) |->
        IF d[i].ID \in IdSet(ed)
        THEN LET e == EdRow(ed, d[i].ID)
             IN  Row(d[i].ID, _normalize_idsim(e.IDSimilar, norm_case, strip_spaces),
                     e.Imagen, e.Descripcion, e.Unidad, e.Cantidad, e.Ubicacion)
        ELSE d[i]]

\* A faulty DropRemoved, kept for comparison: removed rows are not dropped.
DropNothing(base, ed, delete_allowed) == base

\* line 320-328: the rows whose ID is not in the edited view are dropped.
DropRemoved(base, ed, delete_allowed) ==
    IF delete_allowed THEN SelectRows(base, IdSet(ed)) ELSE base

\* line 330-333: "Normalizacion total" of ID Similar.
NormalizeAll(d, norm_case, strip_spaces) ==
    [i \in 1..Len(d) |->
        [d[i] EXCEPT !.IDSimilar = _normalize_idsim(@, norm_case, strip_spaces)]]

Reconcile(d, ed, delete_allowed, norm_case, strip_spaces) ==
    NormalizeAll(DropRemoved(ApplyEdits(d, ed, norm_case, strip_spaces),
                             ed, delete_allowed),
                 norm_case, strip_spaces)

MergeRejected(b, m, o, readOk) ==
    /\ ws' = b.ws
    /\ connCache' = b.ws
    /\ localCache' = b.localCache
    /\ df' = m
    /\ last' = [o EXCEPT !.op = "merge_dup"]
    /\ CountFailures(readOk, "ok", TRUE)
    /\ UNCHANGED <<sheet, file>>

MergeSaved(b, m, o, readOk) ==
    \E wres \in WriteOutcomes :
        /\ RelevantWrite(b.ws, m, wres)
        /\ CountFailures(readOk, wres, TRUE)
        /\ \E st \in { save_data(b.ws, sheet, file, m, wres) } :
            /\ sheet' = st.sheet
            /\ file' = st.file
        /\ ws' = b.ws
        \* st.cache_data.clear()
        /\ connCache' = "miss"
        /\ localCache' = NoCache
        /\ df' = m
        /\ last' = [o EXCEPT !.op = "merge_saved",
                              !.written = IF wres = "ok" THEN "ok" ELSE "failed"]

RunEdit ==
    /\ \E readOk \in BOOLEAN :
        /\ RelevantInputs(connCache, readOk)
        /\ \E b \in { Begin(connCache, localCache, sheet, file, remote, readOk) } :
            /\ loaded' = b.df
            /\ \E flt \in FilterInputs :
                /\ flt.ub_sel \subseteq ubicaciones(b.df)
                /\ \E view \in { view_df(b.df, flt) } :
                   \E allow_delete_filtered \in BOOLEAN :
                   \E edited \in EditedViews(view) \ {view} :
                   \E cfg \in Settings :
                      /\ Filtered(flt) \/ ~allow_delete_filtered
                      /\ \E m \in { Reconcile(b.df, edited,
                                        can_delete(flt.q, flt.ub_sel,
                                                   allow_delete_filtered),
                                        cfg.norm_case, cfg.strip_spaces) } :
                         \E o \in { Op("merge", <<>>, NoRow,
                                       Filtered(flt) /\ ~allow_delete_filtered,
                                       IdSet(edited),
                                       edited = SelectRows(view, IdSet(edited))) } :
                            IF _has_dup_desc_ubic(m)
                            THEN MergeRejected(b, m, o, readOk)
                            ELSE MergeSaved(b, m, o, readOk)
    /\ UNCHANGED <<remote, idcol, newid, wpc, wdf>>

Next ==
    \/ \E force, readOk \in BOOLEAN : RunView(force, readOk)
    \/ RunAdd(Candidates)
    \/ RunEdit

Spec == Init /\ [][Next]_vars

(***************************************************************************)
(* SpecNet: the same session when the outcome of a connection attempt      *)
(* changes over time (the service becomes unreachable, or reachable).      *)
(***************************************************************************)
NetCandidates ==
    { Row(<<"t","m","p">>, <<"s">>, <<>>, d, <<"u"," ">>, 1, <<"x">>) :
        d \in { <<>>, <<"a">> } }

SetRemote ==
    /\ remote' = ~remote
    /\ UNCHANGED <<sheet, file, apiFailures, connCache, localCache, ws, df,
                   loaded, last, idcol, newid, wpc, wdf>>

NextNet ==
    \/ SetRemote
    \/ \E force, readOk \in BOOLEAN : RunView(force, readOk)
    \/ RunAdd(NetCandidates)

SpecNet == Init /\ [][NextNet]_vars

(***************************************************************************)
(* SpecNewId: _new_id as a function of the ID column.                      *)
(***************************************************************************)
IdPool ==
    { <<"I","-","0","0","0","1">>, <<"I","-","0","0","0","2">>,
      <<"I","-","0","0","0","9">>, <<"I","-","0","0","1","0">>,
      <<"I","-","9","9","9","9">>, <<"I","-","7">>, <<"A","B","C">>,
      <<"X","I","-","0","0","0","3">>, <<"I","-","0","0","0","4","b">>,
      <<"n","a","n">>, <<"I","-">> }

\* The ids I-0001 .. I-0009.
NineIds == [k \in 1..9 |-> <<"I","-","0","0","0",Digits[k + 1]>>]

IdColumns ==
    UNION { [1..k -> IdPool] : k \in 0..MaxIdCol }
    \cup { NineIds, Append(NineIds, <<"A","B","C">>) }

InitNewId ==
    /\ InitSession
    /\ remote
    /\ idcol \in IdColumns
    /\ newid = None
    /\ wpc = <<"idle", "idle">>
    /\ wdf = << <<>>, <<>> >>

ApplyNewId ==
    /\ newid = None
    /\ newid' = NewIdOfColumn(idcol)
    /\ UNCHANGED <<sheet, file, remote, apiFailures, connCache, localCache, ws,
                   df, loaded, last, idcol, wpc, wdf>>

SpecNewId == InitNewId /\ [][ApplyNewId]_vars

(***************************************************************************)
(* SpecWriters: two sessions saving to the same worksheet.  Each runs the  *)
(* three API calls of _write_to_gsheets (line 84-88) one after the other;  *)
(* the calls of the two sessions interleave.                               *)
(***************************************************************************)
WriterRow(n, d) == Row(FormatId(n), <<>>, <<>>, d, <<>>, 1, <<"x">>)

\* What a session may be saving: the loaded set plus the row it added.
WriterSets ==
    { <<>>, <<WriterRow(1, <<"a">>)>>, <<WriterRow(1, <<"b">>)>>,
      <<WriterRow(1, <<"a">>), WriterRow(2, <<"b">>)>>,
      <<WriterRow(1, <<"a">>), WriterRow(2, <<"c">>)>> }

InitWriters ==
    /\ InitSession
    /\ remote
    /\ idcol = <<>>
    /\ newid = None
    /\ wpc = <<"clear", "clear">>
    /\ wdf \in WriterSets \X WriterSets

WriterVarsUnchanged ==
    UNCHANGED <<file, remote, apiFailures, connCache, localCache, ws, df, loaded,
                last, idcol, newid, wdf>>

\* ws.clear()
WClear(i) ==
    /\ wpc[i] = "clear"
    /\ sheet' = <<>>
    /\ wpc' = [wpc EXCEPT ![i] = "header"]
    /\ WriterVarsUnchanged

\* ws.append_row(APP_COLUMNS)
WHeader(i) ==
    /\ wpc[i] = "header"
    /\ sheet' = Append(sheet, APP_COLUMNS)
    /\ wpc' = [wpc EXCEPT ![i] = "rows"]
    /\ WriterVarsUnchanged

\* if values: ws.append_rows(values)
WRows(i) ==
    /\ wpc[i] = "rows"
    /\ sheet' = sheet \o SheetValues(wdf[i])
    /\ wpc' = [wpc EXCEPT ![i] = "done"]
    /\ WriterVarsUnchanged

NextWriters == \E i \in 1..2 : WClear(i) \/ WHeader(i) \/ WRows(i)

SpecWriters == InitWriters /\ [][NextWriters]_vars

(***************************************************************************)
(* Properties.                                                             *)
(***************************************************************************)
\* Trimmed and lower-cased text of a stored cell; a missing value is empty.
KeyText(v) == lower(strip(CellText(v)))

SameKey(d1, u1, d2, u2) == KeyText(d1) = KeyText(d2) /\ KeyText(u1) = KeyText(u2)

SheetIds == { sheet[i][1] : i \in 2..Len(sheet) }

FileIds == { file.rows[i].ID : i \in 1..Len(file.rows) }

IdCol(d) == [i \in 1..Len(d) |-> d[i].ID]

UniqueIds(d) == \A i, j \in 1..Len(d) : i # j => d[i].ID # d[j].ID

IsMerge == last.op \in {"merge_dup", "merge_saved"}

\* C1: the persisted record set (the local file, the remote worksheet) never
\* contains two records whose (description, location) are equal after
\* trimming and lower-casing.
C1_NoPersistedDuplicate ==
    /\ \A i, j \in 1..Len(file.rows) :
          i # j => ~SameKey(file.rows[i].Descripcion, file.rows[i].Ubicacion,
                            file.rows[j].Descripcion, file.rows[j].Ubicacion)
    /\ \A i, j \in 2..Len(sheet) :
          i # j => ~SameKey(sheet[i][4], sheet[i][7], sheet[j][4], sheet[j][7])

\* C2: a merge while a filter is active and "allow delete while filtered" is
\* off removes no record: the ids of the full set after the merge are the
\* ids before it, whatever is absent from the edited view.
C2_ProtectedMergeKeepsIds ==
    (IsMerge /\ last.protected) => IdCol(df) = IdCol(loaded)

C2_Witness ==
    /\ last.op = "merge_saved"
    /\ last.protected
    /\ IdSet(loaded) \ last.ed_ids # {}
    /\ Len(df) = 2

\* The case of C3: deleting is allowed, exactly one id of the full set is
\* absent from the edited view, and the view is otherwise unedited.
C3_Case ==
    /\ IsMerge
    /\ ~last.protected
    /\ last.pristine
    /\ Cardinality(IdSet(loaded) \ last.ed_ids) = 1

C4_AbortedMergeReverts ==
    [][(last'.op = "merge_dup" /\ ~_has_dup_desc_ubic(loaded')) =>
          /\ sheet' = sheet
          /\ file' = file
          /\ df' = loaded']_vars

\* C5: the ids of the full record set, in memory and persisted, are pairwise
\* distinct, and no operation changes the id of an existing record: a merge
\* keeps the ids of the rows it keeps, an add keeps the rows it found.
C5_IdsUniqueAndStable ==
    /\ UniqueIds(df)
    /\ UniqueIds(loaded)
    /\ UniqueIds(last.result)
    /\ Cardinality(SheetIds) = (IF Len(sheet) = 0 THEN 0 ELSE Len(sheet) - 1)
    /\ Cardinality(FileIds) = Len(file.rows)
    /\ IsMerge => IdCol(df) = IdCol(SelectRows(loaded, IdSet(df)))
    /\ last.op = "add_ok" =>
          /\ Len(last.result) = Len(loaded) + 1
          /\ SubSeq(IdCol(last.result), 1, Len(loaded)) = IdCol(loaded)

C5_Witness ==
    /\ last.op = "add_ok"
    /\ Len(last.result) = 2
    /\ Len(df) = 2
    /\ df[2].ID = <<"I","-","0","0","0","2">>

\* C6: an add whose candidate (description, location), trimmed and
\* lower-cased, equals that of an existing record is rejected and changes
\* nothing: the full set in memory and the persisted set are what they were.
C6_DuplicateAddChangesNothing ==
    [][(/\ last'.op \in {"add_dup", "add_ok"}
        /\ \E i \in 1..Len(loaded') :
             SameKey(last'.cand.Descripcion, last'.cand.Ubicacion,
                     loaded'[i].Descripcion, loaded'[i].Ubicacion))
       => /\ last'.op = "add_dup"
          /\ df' = loaded'
          /\ sheet' = sheet
          /\ file' = file]_vars

\* C7: once two concurrent saves have both completed, the worksheet holds
\* the header row followed by the rows of one of the two writers.
C7_OneWriterWins ==
    (wpc = <<"done", "done">>) =>
        \E i \in 1..2 : sheet = <<APP_COLUMNS>> \o SheetValues(wdf[i])

\* C8: once chosen, the backend never changes.
C8_BackendNeverChanges == [][ws # "unset" => ws' = ws]_vars

\* The pattern I-<digits> occurs in id from position p to position e.
C9_Occurs(id, p, e) ==
    /\ p + 2 <= e
    /\ e <= Len(id)
    /\ id[p] = "I"
    /\ id[p + 1] = "-"
    /\ \A k \in (p + 2)..e : id[k] \in DigitSet

C9_Matches(id) == \E p, e \in 1..Len(id) : C9_Occurs(id, p, e)

RECURSIVE C9_Pow10(_)
C9_Pow10(n) == IF n = 0 THEN 1 ELSE 10 * C9_Pow10(n - 1)

RECURSIVE C9_Sum(_, _, _)
C9_Sum(id, k, e) ==
    IF k > e THEN 0
    ELSE DigitVal(id[k]) * C9_Pow10(e - k) + C9_Sum(id, k + 1, e)

\* The number after the first "I-" that digits follow: its longest digit run.
C9_Number(id) ==
    LET p == CHOOSE x \in 1..Len(id) :
                /\ \E e \in 1..Len(id) : C9_Occurs(id, x, e)
                /\ \A y \in 1..(x - 1) : \A e \in 1..Len(id) : ~C9_Occurs(id, y, e)
        e == CHOOSE x \in 1..Len(id) :
                /\ C9_Occurs(id, p, x)
                /\ \A y \in (x + 1)..Len(id) : ~C9_Occurs(id, p, y)
    IN  C9_Sum(id, p + 2, e)

C9_Width(n) == IF n < 10000 THEN 4 ELSE CHOOSE w \in 5..12 : C9_Pow10(w - 1) <= n /\ n < C9_Pow10(w)

C9_Format(n) ==
    <<"I", "-">> \o [k \in 1..C9_Width(n) |->
                       Digits[((n \div C9_Pow10(C9_Width(n) - k)) % 10) + 1]]

C9_Expected(col) ==
    LET nums == { C9_Number(col[i]) : i \in { j \in 1..Len(col) : C9_Matches(col[j]) } }
    IN  IF nums = {} THEN <<"I","-","0","0","0","1">>
        ELSE C9_Format(1 + (CHOOSE m \in nums : \A x \in nums : x <= m))

C10_DeletedByMerge(id) ==
    /\ last.op = "merge_saved"
    /\ ~last.protected
    /\ id \in IdSet(loaded)
    /\ id \notin last.ed_ids

\* C10: unless a write itself fails, a persisted record disappears only
\* through a merge in which deleting is allowed and the record, part of the
\* loaded set, is absent from the edited view; in particular a failed load
\* followed by a successful save erases nothing.
C10_RecordsOnlyLeaveByDelete ==
    [][last'.written # "failed" =>
          /\ \A id \in SheetIds : id \notin SheetIds' => C10_DeletedByMerge(id)'
          /\ \A id \in FileIds : id \notin FileIds' => C10_DeletedByMerge(id)']_vars

====
